---- MODULE Spec2Model ----
(***************************************************************************)
(* A model of enyo.Collection (src/unnamed/part_000): the ordered sequence *)
(* of slots (raw hashes or enyo.Model instances), add / remove / merge,    *)
(* the filter overlay with its undo buffer (_uRecords) and the events and  *)
(* observer notifications each public call emits.                          *)
(*                                                                         *)
(* Every action is one complete public call.  Indices are 0-based, as in   *)
(* the source; a TLA+ sequence position is the index plus one.             *)
(***************************************************************************)
EXTENDS Integers, Sequences, FiniteSets, TLC

\* ------------------------------------------------------------- bounds
\* Number of objects (raw hashes and records) that can exist.
MaxObj == 6
\* Longest sequence of slots, and longest batch handed to one call.
MaxLen == 4
MaxBatch == 3
\* Calls made on one collection where single calls are examined, merge
\* calls where a merge is repeated, and filter passes before a restore.
MaxCalls == 1
MaxMerges == 2
MaxPasses == 2
\* at most this many reads through at() before a collection is destroyed
MaxReads == 2
\* fetches unsettled at a time, and steps in all, where fetches are examined
MaxFlights == 2
MaxSteps == 4
\* calls in a row where the notifications of the mutators are examined
MaxMutations == 2
\* calls in a row where the records read through at() are followed
MaxAccesses == 3
\* calls in a row where the ways out of the filtered state are examined
MaxRestores == 2
\* steps that start something where a filter pass is followed from inside
MaxNested == 4
\* calls in a row where records are destroyed by their holders
MaxDestroys == 3
\* steps where fetches settle around destroy()
MaxLate == 5
\* In Spec, where calls interleave without limit: the objects the caller
\* starts with, the records the collection may create, the longest dataset.
NumUser == 2
MaxMade == 1
MaxData == 2
\* Fetches in flight at once.
MaxFetch == 1
\* Attribute values are 1..MaxVal; Undef is JavaScript's undefined.
MaxVal == 2
Undef == 0

Ids == 1..MaxObj
Vals == 1..MaxVal
Keys == {"id", "a"}
\* the model kind's primaryKey
pk == "id"

\* ------------------------------------------------------------- state
VARIABLES
    heap,               \* object id -> the object (raw hash or record)
    records,            \* this.records: the visible sequence of slots
    length,             \* this.length: the cached count
    filtered,           \* this.filtered
    uRecords,           \* this._uRecords: the undo buffer, or null
    activeFilter,       \* this.activeFilter
    filtering,          \* this.filtering
    silenced,           \* this.silenced
    destroyingAll,      \* this._destroyAll
    store,              \* whether this.store refers to the store
    destroyed,          \* this.destroyed
    preserveRecords,    \* this.preserveRecords
    scheduled,          \* the fetches whose request enyo.asyncMethod holds
    pending,            \* the fetches in flight: the strategy of each
    instanceAllRecords, \* this.instanceAllRecords
    mergeKeys,          \* this.model.prototype.mergeKeys (<<>>: not declared)
    events,             \* what the last call delivered to observers/listeners
    last,               \* the last call: its name, arguments and result
    detail,             \* whether events and last are recorded at all
    base                \* with detail, the sequence visible when last unfiltered

vars == <<heap, records, length, filtered, uRecords, activeFilter, filtering,
          silenced, destroyingAll, store, destroyed, preserveRecords,
          scheduled, pending, instanceAllRecords, mergeKeys, events, last,
          detail, base>>

\* ------------------------------------------------------------ objects
NoAttrs == [k \in Keys |-> Undef]
FreeObj == [kind |-> "free", attrs |-> NoAttrs, destroyed |-> FALSE,
            owner |-> FALSE, listening |-> FALSE]
Hash(attrs, dead) == [kind |-> "hash", attrs |-> attrs, destroyed |-> dead,
                      owner |-> FALSE, listening |-> FALSE]
\* an enyo.Model instance the caller created itself
Instance(attrs) == [kind |-> "model", attrs |-> attrs, destroyed |-> FALSE,
                    owner |-> FALSE, listening |-> FALSE]

\* r instanceof enyo.Model
IsModel(h, x) == h[x].kind = "model"

Null == [isNull |-> TRUE, recs |-> <<>>]
Buffer(s) == [isNull |-> FALSE, recs |-> s]

Min(x, y) == IF x < y THEN x ELSE y
Max(x, y) == IF x > y THEN x ELSE y

\* Array.prototype.splice(start, del, items...) with a 0-based, possibly
\* negative start.
Splice(s, start, del, items) ==
    LET n  == Len(s)
        st == IF start < 0 THEN Max(n + start, 0) ELSE Min(start, n)
        dc == Min(Max(del, 0), n - st)
    IN SubSeq(s, 1, st) \o items \o SubSeq(s, st + dc + 1, n)

\* the collection as one value, for the operators below
Cur == [heap |-> heap, records |-> records, length |-> length,
        filtered |-> filtered, uRecords |-> uRecords,
        activeFilter |-> activeFilter, filtering |-> filtering,
        silenced |-> silenced, destroyingAll |-> destroyingAll,
        store |-> store, destroyed |-> destroyed,
        scheduled |-> scheduled, pending |-> pending, events |-> <<>>]

\* notifyObservers("length", old, new): dropped while silenced
notifyObservers(st, old, new) ==
    IF st.silenced THEN st
    ELSE [st EXCEPT !.events = Append(@, [type |-> "length", old |-> old,
                                          new |-> new, recs |-> <<>>,
                                          map |-> {}])]

\* triggerEvent that delivers also while silenced
triggerEventLoud(st, type, recs, map) ==
    [st EXCEPT !.events = Append(@, [type |-> type, old |-> 0,
                                     new |-> 0, recs |-> recs,
                                     map |-> map])]

\* triggerEvent(event, {records: ...}): dropped while silenced.  recs is the
\* array an add or reset event carries, map the hash a remove event carries.
triggerEvent(st, type, recs, map) ==
    IF st.silenced THEN st
    ELSE [st EXCEPT !.events = Append(@, [type |-> type, old |-> 0,
                                          new |-> 0, recs |-> recs,
                                          map |-> map])]

\* ------------------------------------------------------------- reset
NoArg == [given |-> FALSE, recs |-> <<>>]
Arg(s) == [given |-> TRUE, recs |-> s]

resetNotify(st, l) ==
    triggerEvent(IF l # st.length THEN notifyObservers(st, l, st.length) ELSE st,
                 "reset", st.records, {})

\* reset with the restore branch leaving the cached length alone
resetStaleLength(st, arg) ==
    IF ~arg.given /\ st.filtered
    THEN resetNotify([st EXCEPT !.records = st.uRecords.recs,
                                !.uRecords = Null,
                                !.filtered = FALSE],
                     Len(st.records))
    ELSE IF arg.given
    THEN LET s0 == IF st.filtering /\ ~st.filtered
                   THEN [st EXCEPT !.uRecords = Buffer(st.records)]
                   ELSE st
         IN resetNotify([s0 EXCEPT !.records = arg.recs,
                                   !.length = Len(arg.recs)],
                        Len(st.records))
    ELSE st

\* reset with the restore branch leaving the undo buffer in place
resetKeepsBuffer(st, arg) ==
    IF ~arg.given /\ st.filtered
    THEN resetNotify([st EXCEPT !.records = st.uRecords.recs,
                                !.length = Len(st.uRecords.recs),
                                !.filtered = FALSE],
                     Len(st.records))
    ELSE IF arg.given
    THEN LET s0 == IF st.filtering /\ ~st.filtered
                   THEN [st EXCEPT !.uRecords = Buffer(st.records)]
                   ELSE st
         IN resetNotify([s0 EXCEPT !.records = arg.recs,
                                   !.length = Len(arg.recs)],
                        Len(st.records))
    ELSE st

reset(st, arg) ==
    IF ~arg.given /\ st.filtered
    THEN resetNotify([st EXCEPT !.records = st.uRecords.recs,
                                !.uRecords = Null,
                                !.length = Len(st.uRecords.recs),
                                !.filtered = FALSE],
                     Len(st.records))
    ELSE IF arg.given
    THEN LET s0 == IF st.filtering /\ ~st.filtered
                   THEN [st EXCEPT !.uRecords = Buffer(st.records)]
                   ELSE st
         IN resetNotify([s0 EXCEPT !.records = arg.recs,
                                   !.length = Len(arg.recs)],
                        Len(st.records))
    ELSE st

\* ------------------------------------------------------ createRecord
FreeIds(h) == {x \in Ids : h[x].kind = "free"}
NextId(h) == CHOOSE x \in FreeIds(h) : \A y \in FreeIds(h) : x <= y

\* store.createRecord(model, attrs, {owner: this}) and the two addListener
\* calls of createRecord(attrs, null, false): a new record, not inserted.
createRecord(h, x) ==
    [h EXCEPT ![NextId(h)] = [kind |-> "model", attrs |-> h[x].attrs,
                              destroyed |-> FALSE, owner |-> TRUE,
                              listening |-> TRUE]]

\* --------------------------------------------------------------- add
\* i = (i !== null && !isNaN(i) && (i=Math.max(0,i)) && (i=Math.min(len,i))) || len
\* with <<>> for an omitted index
addIndex(i, len) ==
    IF i = <<>> THEN len
    ELSE LET a == Max(0, i[1])
         IN IF a = 0 THEN len
            ELSE LET b == Min(len, a) IN IF b = 0 THEN len ELSE b

\* the loop with the index pushed for every entry, records included
RECURSIVE addScanAll(_, _, _, _, _)
addScanAll(inst, batch, p, j, acc) ==
    IF acc.threw \/ j > Len(batch) THEN acc
    ELSE LET r == batch[j]
         IN IF IsModel(acc.heap, r)
            THEN addScanAll(inst, batch, p, j + 1,
                            [acc EXCEPT !.add = Append(@, (j - 1) + p)])
            ELSE IF inst
            THEN addScanAll(inst, batch, p, j + 1,
                            [acc EXCEPT !.heap = createRecord(acc.heap, r),
                                        !.recs[j] = NextId(acc.heap),
                                        !.add = Append(@, (j - 1) + p)])
            ELSE IF acc.heap[r].destroyed
            THEN [acc EXCEPT !.threw = TRUE]
            ELSE addScanAll(inst, batch, p, j + 1,
                            [acc EXCEPT !.add = Append(@, (j - 1) + p)])

\* the loop over the batch; acc is the state before entry j
RECURSIVE addScan(_, _, _, _, _)
addScan(inst, batch, p, j, acc) ==
    IF acc.threw \/ j > Len(batch) THEN acc
    ELSE LET r == batch[j]
         IN IF IsModel(acc.heap, r)
            THEN addScan(inst, batch, p, j + 1, acc)
            ELSE IF inst
            THEN addScan(inst, batch, p, j + 1,
                         [acc EXCEPT !.heap = createRecord(acc.heap, r),
                                     !.recs[j] = NextId(acc.heap),
                                     !.add = Append(@, (j - 1) + p)])
            ELSE IF acc.heap[r].destroyed
            THEN [acc EXCEPT !.threw = TRUE]
            ELSE addScan(inst, batch, p, j + 1,
                         [acc EXCEPT !.add = Append(@, (j - 1) + p)])

\* The steps of add, last to first: the add event and the result; the
\* length notification; the splice into this.records; the loop; the early
\* return for an empty batch.  It starts from the restored collection when
\* called while filtered.
add(st, inst, batch, i) ==
    LET addEvent(s2, ad) ==
            [st |-> IF ad # <<>> THEN triggerEvent(s2, "add", ad, {}) ELSE s2,
             ret |-> ad, threw |-> FALSE]
        addNotify(s1, len, ad) ==
            addEvent(IF len # s1.length THEN notifyObservers(s1, len, s1.length)
                  ELSE s1, ad)
        addInsert(s0, sc, local) ==
            addNotify([s0 EXCEPT !.heap = sc.heap, !.records = local,
                              !.length = Len(local)],
                   s0.length, sc.add)
        addSplice(s0, p, sc) ==
            IF sc.threw THEN [st |-> s0, ret |-> <<>>, threw |-> TRUE]
            ELSE addInsert(s0, sc, Splice(s0.records, p, 0, sc.recs))
        addLoop(s0, p) ==
            addSplice(s0, p, addScan(inst, batch, p, 1,
                                  [heap |-> s0.heap, recs |-> batch,
                                   add |-> <<>>, threw |-> FALSE]))
        addStart(s0) ==
            IF batch = <<>> THEN [st |-> s0, ret |-> <<>>, threw |-> FALSE]
            ELSE addLoop(s0, addIndex(i, s0.length))
    IN addStart(IF st.filtered THEN reset(st, NoArg) ELSE st)

\* ---------------------------------------------------------------- at
at(st, i) ==
    IF i < 0 \/ i >= Len(st.records) THEN st
    ELSE LET r == st.records[i + 1]
         IN IF IsModel(st.heap, r) \/ ~st.store THEN st
            ELSE [st EXCEPT !.heap = createRecord(st.heap, r),
                            !.records[i + 1] = NextId(st.heap)]

\* ------------------------------------------------------------ remove
\* enyo.indexOf(rec, this.records): the first index holding rec, or -1
RECURSIVE indexFrom(_, _, _)
indexFrom(s, x, j) ==
    IF j > Len(s) THEN -1
    ELSE IF s[j] = x THEN j - 1 ELSE indexFrom(s, x, j + 1)

indexOf(st, x) == indexFrom(st.records, x, 1)

\* k=0; while (rr[k] < i) { ++k; }
RECURSIVE firstNotBelow(_, _, _)
firstNotBelow(rr, i, k) ==
    IF k < Len(rr) /\ rr[k + 1] < i THEN firstNotBelow(rr, i, k + 1) ELSE k

\* the three-way placement of index i into rr
place(acc, i, r) ==
    IF i <= acc.m
    THEN [acc EXCEPT !.m = i, !.rr = <<i>> \o @, !.d = @ \cup {<<i, r>>}]
    ELSE IF i >= acc.x
    THEN [acc EXCEPT !.x = i, !.rr = Append(@, i), !.d = @ \cup {<<i, r>>}]
    ELSE [acc EXCEPT !.rr = Splice(@, firstNotBelow(acc.rr, i, 0) - 1, 0, <<i>>),
                     !.d = @ \cup {<<i, r>>}]

\* the first loop of remove: the indices to remove and the hash of records
RECURSIVE removeScan(_, _, _, _)
removeScan(st, batch, j, acc) ==
    IF j > Len(batch) THEN acc
    ELSE LET i == indexOf(st, batch[j])
         IN removeScan(st, batch, j + 1,
                       IF i > -1 THEN place(acc, i, batch[j]) ELSE acc)

\* the record d[i] of the hash
recordAt(d, i) == CHOOSE r \in Ids : <<i, r>> \in d

\* the second loop: splice out rr[j], rr[j-1], ..., rr[0]
RECURSIVE removeSplice(_, _, _, _)
removeSplice(st, rr, d, j) ==
    IF j < 1 THEN st
    ELSE LET i == rr[j]
             r == recordAt(d, i)
         IN removeSplice([st EXCEPT !.records = Splice(@, i, 1, <<>>),
                                    !.heap[r].listening =
                                        IF IsModel(st.heap, r) THEN FALSE ELSE @],
                         rr, d, j - 1)

\* The steps of remove, last to first: the remove event and the result; the
\* length notification; the length fix; the second loop; the first loop.
remove(st, batch) ==
    LET rmEvent(s3, sc) ==
            [st |-> IF sc.rr # <<>> THEN triggerEvent(s3, "remove", <<>>, sc.d)
                    ELSE s3,
             ret |-> sc.d, rr |-> sc.rr]
        rmNotify(s2, l, sc) ==
            rmEvent(IF l # s2.length THEN notifyObservers(s2, l, s2.length) ELSE s2,
                  sc)
        rmFix(s1, l, sc) == rmNotify([s1 EXCEPT !.length = Len(s1.records)], l, sc)
        rmSecond(s0, sc) ==
            rmFix(removeSplice(s0, sc.rr, sc.d, Len(sc.rr)), s0.length, sc)
        rmFirst(s0) ==
            rmSecond(s0, removeScan(s0, batch, 1,
                                  [rr |-> <<>>, d |-> {}, x |-> 0, m |-> 0]))
    IN rmFirst(IF st.filtered THEN reset(st, NoArg) ELSE st)

\* return this.remove(this.records): the argument is the array visible when
\* removeAll is entered
removeAll(st) == remove(st, st.records)

\* -------------------------------------------------------- destroyAll
\* the keys of the hash of removed records, in the order for-in visits them
RECURSIVE keysFrom(_, _)
keysFrom(d, i) ==
    IF i > MaxLen THEN <<>>
    ELSE (IF \E r \in Ids : <<i, r>> \in d THEN <<i>> ELSE <<>>) \o keysFrom(d, i + 1)

\* _recordDestroyed(rec), the listener for a record's destroy event
recordDestroyed(st, r) ==
    IF st.destroyingAll THEN st ELSE remove(st, <<r>>).st

\* rec.destroy() of a record: its destroy event reaches the collection if
\* the collection still listens, and the record is destroyed
destroyRecord(st, r) ==
    LET destroyMark(s1) == [s1 EXCEPT !.heap[r].destroyed = TRUE,
                                      !.heap[r].listening = FALSE]
    IN destroyMark(IF st.heap[r].listening THEN recordDestroyed(st, r) ELSE st)

\* (r=rr[k]) && r.destroy() for each key: a raw hash has no destroy method,
\* so the call raises and the loop ends there; a record is destroyed
RECURSIVE destroyEach(_, _, _, _)
destroyEach(st, d, ks, j) ==
    IF j > Len(ks) THEN [st |-> st, threw |-> FALSE]
    ELSE LET r == recordAt(d, ks[j])
         IN IF ~IsModel(st.heap, r) THEN [st |-> st, threw |-> TRUE]
            ELSE destroyEach(destroyRecord(st, r), d, ks, j + 1)

destroyAll(st) ==
    LET daDone(lp, rm) ==
            [st |-> IF lp.threw THEN lp.st
                    ELSE [lp.st EXCEPT !.destroyingAll = FALSE],
             ret |-> rm.ret, rr |-> rm.rr, threw |-> lp.threw]
        daEach(rm) ==
            daDone(destroyEach([rm.st EXCEPT !.destroyingAll = TRUE], rm.ret,
                             keysFrom(rm.ret, 0), 1),
                 rm)
    IN daEach(removeAll(st))

\* ----------------------------------------------------------- destroy
\* the loop of destroy over the removed entries: an entry whose owner is the
\* collection is released when preserveRecords is set and destroyed otherwise
RECURSIVE destroyOwned(_, _, _, _, _)
destroyOwned(st, preserve, d, ks, j) ==
    IF j > Len(ks) THEN st
    ELSE LET r == recordAt(d, ks[j])
         IN IF ~st.heap[r].owner THEN destroyOwned(st, preserve, d, ks, j + 1)
            ELSE IF preserve
            THEN destroyOwned([st EXCEPT !.heap[r].owner = FALSE],
                              preserve, d, ks, j + 1)
            ELSE destroyOwned(destroyRecord(st, r), preserve, d, ks, j + 1)

\* destroy(): removeAll, the loop, the destroy event, and the store
\* reference and the destroyed flag
destroy(st, preserve) ==
    LET destroyDone(s1, rm) ==
            [st |-> [triggerEvent(s1, "destroy", <<>>, {})
                        EXCEPT !.store = FALSE, !.destroyed = TRUE],
             ret |-> rm.ret, rr |-> rm.rr]
        destroyLoop(rm) ==
            destroyDone(destroyOwned(rm.st, preserve, rm.ret,
                                     keysFrom(rm.ret, 0), 1),
                        rm)
    IN destroyLoop(removeAll(st))

\* ------------------------------------------------------------- merge
\* r.get? r.get(key): r[key]
Get(h, r, key) == h[r].attrs[key]

\* enyo.mixin(c, data) for a raw hash c, c.setObject(data) for a record c:
\* every property the data defines overwrites the target's.  A raw hash
\* that carries a destroyed flag hands it to a raw hash target as well.
mixin(h, c, r) ==
    [h EXCEPT ![c].attrs = [k \in Keys |-> IF h[r].attrs[k] # Undef
                                           THEN h[r].attrs[k] ELSE @[k]],
              ![c].destroyed = IF h[c].kind = "hash" /\ h[r].kind = "hash"
                               THEN @ \/ h[r].destroyed ELSE @]

\* the loop over the merge keys; acc.v is the variable v of merge, which
\* the loop overwrites
RECURSIVE matchKeys(_, _, _, _, _, _)
matchKeys(h, mk, r, c, k, acc) ==
    IF k > Len(mk) THEN acc
    ELSE LET v == Get(h, r, mk[k])
         IN IF v = Get(h, c, mk[k])
            THEN matchKeys(h, mk, r, c, k + 1, [match |-> TRUE, v |-> v])
            ELSE [match |-> FALSE, v |-> v]

\* the loop over the candidates local[j], local[j+1], ...: the index of the
\* candidate merged with r, or -1
RECURSIVE findMatch(_, _, _, _, _, _)
findMatch(h, mk, r, local, j, v) ==
    IF j >= Len(local) THEN -1
    ELSE LET c == local[j + 1]
         IN IF v # Undef /\ v = Get(h, c, pk) THEN j
            ELSE IF mk # <<>>
            THEN LET mm == matchKeys(h, mk, r, c, 1, [match |-> FALSE, v |-> v])
                 IN IF mm.match THEN j
                    ELSE findMatch(h, mk, r, local, j + 1, mm.v)
            ELSE findMatch(h, mk, r, local, j + 1, v)

\* the loop with a merged candidate left in the copy
RECURSIVE mergeScanKeep(_, _, _, _)
mergeScanKeep(mk, batch, i, acc) ==
    IF i > Len(batch) THEN acc
    ELSE LET r == batch[i]
             v == Get(acc.heap, r, pk)
             j == IF mk # <<>> \/ v # Undef
                  THEN findMatch(acc.heap, mk, r, acc.local, 0, v) ELSE -1
         IN mergeScanKeep(mk, batch, i + 1,
                IF j > -1
                THEN [acc EXCEPT !.heap = mixin(@, acc.local[j + 1], r),
                                 !.matched = Append(@, acc.slots[j + 1])]
                ELSE [acc EXCEPT !.add = Append(@, r),
                                 !.matched = Append(@, -1)])

\* the loop with every incoming record pushed to add, merged or not
RECURSIVE mergeScanAddAll(_, _, _, _)
mergeScanAddAll(mk, batch, i, acc) ==
    IF i > Len(batch) THEN acc
    ELSE LET r == batch[i]
             v == Get(acc.heap, r, pk)
             j == IF mk # <<>> \/ v # Undef
                  THEN findMatch(acc.heap, mk, r, acc.local, 0, v) ELSE -1
         IN mergeScanAddAll(mk, batch, i + 1,
                IF j > -1
                THEN [acc EXCEPT !.heap = mixin(@, acc.local[j + 1], r),
                                 !.local = Splice(@, j, 1, <<>>),
                                 !.slots = Splice(@, j, 1, <<>>),
                                 !.add = Append(@, r),
                                 !.matched = Append(@, acc.slots[j + 1])]
                ELSE [acc EXCEPT !.add = Append(@, r),
                                 !.matched = Append(@, -1)])

\* the loop with a raw hash that was merged into turned into a record
RECURSIVE mergeScanMaterialize(_, _, _, _)
mergeScanMaterialize(mk, batch, i, acc) ==
    IF i > Len(batch) THEN acc
    ELSE LET r == batch[i]
             v == Get(acc.heap, r, pk)
             j == IF mk # <<>> \/ v # Undef
                  THEN findMatch(acc.heap, mk, r, acc.local, 0, v) ELSE -1
         IN mergeScanMaterialize(mk, batch, i + 1,
                IF j > -1
                THEN [acc EXCEPT !.heap = [mixin(@, acc.local[j + 1], r)
                                              EXCEPT ![acc.local[j + 1]].kind = "model"],
                                 !.local = Splice(@, j, 1, <<>>),
                                 !.slots = Splice(@, j, 1, <<>>),
                                 !.matched = Append(@, acc.slots[j + 1])]
                ELSE [acc EXCEPT !.add = Append(@, r),
                                 !.matched = Append(@, -1)])

\* the loop over the incoming records.  acc.local is the copy of
\* this.records still to be matched and acc.slots the index each of its
\* entries has in this.records; acc.matched lists, per incoming record, the
\* index of the slot it was merged into, or -1.
RECURSIVE mergeScan(_, _, _, _)
mergeScan(mk, batch, i, acc) ==
    IF i > Len(batch) THEN acc
    ELSE LET r == batch[i]
             v == Get(acc.heap, r, pk)
             j == IF mk # <<>> \/ v # Undef
                  THEN findMatch(acc.heap, mk, r, acc.local, 0, v) ELSE -1
         IN mergeScan(mk, batch, i + 1,
                IF j > -1
                THEN [acc EXCEPT !.heap = mixin(@, acc.local[j + 1], r),
                                 !.local = Splice(@, j, 1, <<>>),
                                 !.slots = Splice(@, j, 1, <<>>),
                                 !.matched = Append(@, acc.slots[j + 1])]
                ELSE [acc EXCEPT !.add = Append(@, r),
                                 !.matched = Append(@, -1)])

\* The steps of merge, last to first: the add of the records that were not
\* merged; the loop.
merge(st, inst, mk, batch) ==
    LET mergeDone(sc, ad) ==
            [st |-> ad.st, matched |-> sc.matched, add |-> sc.add,
             threw |-> ad.threw]
        mergeRest(s1, sc) ==
            mergeDone(sc, IF sc.add # <<>> THEN add(s1, inst, sc.add, <<>>)
                     ELSE [st |-> s1, ret |-> <<>>, threw |-> FALSE])
        mergeScanned(sc) == mergeRest([st EXCEPT !.heap = sc.heap], sc)
    IN mergeScanned(mergeScan(mk, batch, 1,
                         [heap |-> st.heap, local |-> st.records,
                          slots |-> [n \in 1..Len(st.records) |-> n - 1],
                          add |-> <<>>, matched |-> <<>>]))

\* ------------------------------------------------------------ filters
\* the names the filters property maps to a method of the collection
Filters == {"f1", "f2"}
\* the values activeFilter takes: none or a filter
FilterNames == {""} \cup Filters

\* the entries of s at the positions in m, in order
RECURSIVE Sub(_, _, _)
Sub(s, m, j) ==
    IF j > Len(s) THEN <<>>
    ELSE (IF j \in m THEN <<s[j]>> ELSE <<>>) \o Sub(s, m, j + 1)

Masks == SUBSET (1..MaxLen)

\* What a filter method does.  It may call reset() to see the whole
\* dataset, may call reset(array) itself, and returns a falsy value, true or
\* an array; the arrays are selections (m1, m2) of the records it sees.
\* That the method was called is recorded among the events of the call.
PredKinds == {"none", "true", "array", "self", "selfNone", "both", "restore"}

runPredicate(st, kind, m1, m2) ==
    LET predOut(s1) ==
            [st |-> s1,
             r  |-> CASE kind \in {"none", "selfNone"} -> "falsy"
                      [] kind \in {"true", "self"} -> "true"
                      [] kind \in {"array", "restore"} -> "array"
                      [] kind = "both" -> "array",
             arr |-> IF kind \in {"array", "restore"} THEN Sub(s1.records, m1, 1)
                     ELSE IF kind = "both" THEN Sub(s1.records, m2, 1)
                     ELSE <<>>]
        predOwn(s0) ==
            predOut(IF kind \in {"self", "selfNone", "both"}
                THEN reset(s0, Arg(Sub(s0.records, m1, 1))) ELSE s0)
        predCalled(s0) ==
            [s0 EXCEPT !.events = Append(@, [type |-> "filterMethod", old |-> 0,
                                              new |-> 0, recs |-> <<>>,
                                              map |-> {}])]
    IN predOwn(IF kind = "restore" THEN reset(predCalled(st), NoArg)
               ELSE predCalled(st))

\* _filterContent without the test of the filtering flag
filterContentReentrant(st, kind, m1, m2) ==
    LET againDone(s4) ==
            IF ~s4.uRecords.isNull /\ Len(s4.uRecords.recs) # 0
            THEN [s4 EXCEPT !.filtered = TRUE] ELSE s4
        againReturned(s2, pr) ==
            againDone([(IF pr.r = "falsy" THEN s2
                   ELSE reset(s2, IF pr.r = "true" THEN NoArg ELSE Arg(pr.arr)))
                  EXCEPT !.filtering = FALSE])
        againRan(pr) == againReturned([pr.st EXCEPT !.silenced = FALSE], pr)
    IN IF (st.length # 0 \/ (~st.uRecords.isNull /\ Len(st.uRecords.recs) # 0))
          /\ st.activeFilter \in Filters
       THEN againRan(runPredicate([st EXCEPT !.filtering = TRUE, !.silenced = TRUE],
                             kind, m1, m2))
       ELSE st

\* _filterContent, the listener of the filter event.  Its steps, last to
\* first: the filtered flag; the reset with what the method returned; the
\* method, run silenced.
filterContent(st, kind, m1, m2) ==
    LET passDone(s4) ==
            IF ~s4.uRecords.isNull /\ Len(s4.uRecords.recs) # 0
            THEN [s4 EXCEPT !.filtered = TRUE] ELSE s4
        passReturned(s2, pr) ==
            passDone([(IF pr.r = "falsy" THEN s2
                   ELSE reset(s2, IF pr.r = "true" THEN NoArg ELSE Arg(pr.arr)))
                  EXCEPT !.filtering = FALSE])
        passRan(pr) == passReturned([pr.st EXCEPT !.silenced = FALSE], pr)
    IN IF ~st.filtering
          /\ (st.length # 0 \/ (~st.uRecords.isNull /\ Len(st.uRecords.recs) # 0))
          /\ st.activeFilter \in Filters
       THEN passRan(runPredicate([st EXCEPT !.filtering = TRUE, !.silenced = TRUE],
                             kind, m1, m2))
       ELSE st

\* triggerEvent("filter"): _filterContent runs unless the event is dropped
requestFilter(st, kind, m1, m2) ==
    IF st.silenced THEN st
    ELSE filterContent(triggerEvent(st, "filter", <<>>, {}), kind, m1, m2)

\* _filterContent in three steps, for what happens inside a pass.  First
\* step: up to the call of the filter method.
passEnter(st) ==
    IF ~st.filtering
       /\ (st.length # 0 \/ (~st.uRecords.isNull /\ Len(st.uRecords.recs) # 0))
       /\ st.activeFilter \in Filters
    THEN [st EXCEPT !.filtering = TRUE, !.silenced = TRUE,
                    !.events = Append(@, [type |-> "filterMethod", old |-> 0,
                                          new |-> 0, recs |-> <<>>,
                                          map |-> {}])]
    ELSE st

\* second step: the method returned r (with the array arr): silenced is
\* cleared and reset is called unless r is falsy
methodReturned(st, r, arr) ==
    IF r = "falsy" THEN [st EXCEPT !.silenced = FALSE]
    ELSE reset([st EXCEPT !.silenced = FALSE],
               IF r = "true" THEN NoArg ELSE Arg(arr))

\* third step: the filtering flag is cleared and the filtered flag is set
\* when there is a non-empty undo buffer
passEnd(st) ==
    IF ~st.uRecords.isNull /\ Len(st.uRecords.recs) # 0
    THEN [st EXCEPT !.filtering = FALSE, !.filtered = TRUE]
    ELSE [st EXCEPT !.filtering = FALSE]

\* _activeFilterChanged, the observer of activeFilter
activeFilterChanged(st, kind, m1, m2) ==
    IF st.activeFilter # "" /\ st.activeFilter \in Filters
    THEN filterContent(triggerEvent(st, "filter", <<>>, {}), kind, m1, m2)
    ELSE reset(st, NoArg)

\* set("activeFilter", name): the observers run when the value changes
setActiveFilter(st, name, kind, m1, m2) ==
    IF name = st.activeFilter THEN st
    ELSE activeFilterChanged([st EXCEPT !.activeFilter = name], kind, m1, m2)

\* ------------------------------------------------------------- fetch
Strategies == {"add", "merge"}
FetchOpts == [replace : BOOLEAN, destroy : BOOLEAN, strategy : Strategies]

\* fetch(opts): the request is handed to enyo.asyncMethod, then the records
\* are cleared as the options ask
fetch(st, o) ==
    LET fetchThrown(da) == [st |-> da.st, threw |-> da.threw]
        fetchClear(s1) ==
            IF o.replace /\ ~o.destroy
            THEN [st |-> removeAll(s1).st, threw |-> FALSE]
            ELSE IF o.destroy THEN fetchThrown(destroyAll(s1))
            ELSE [st |-> s1, threw |-> FALSE]
        fetchSchedule(s0) == fetchClear([s0 EXCEPT !.scheduled = Append(@, o.strategy)])
    IN fetchSchedule(IF st.filtered THEN reset(st, NoArg) ELSE st)

\* the function enyo.asyncMethod was handed runs: store.fetchRecord(this, o)
\* issues the request of the fetch scheduled first; with this.store null the
\* function raises and no request is issued
fetchRecord(st) ==
    IF ~st.store THEN [st EXCEPT !.scheduled = Tail(@)]
    ELSE [st EXCEPT !.scheduled = Tail(@),
                    !.pending = Append(@, Head(st.scheduled))]

\* opts.success(rec, opts, res) or opts.fail(rec, opts, res): a continuation
\* of the caller of fetch is invoked
invoke(st, which) ==
    [st EXCEPT !.events = Append(@, [type |-> which, old |-> 0, new |-> 0,
                                     recs |-> <<>>, map |-> {}])]

\* didFetch that hands the result to add whatever the strategy
didFetchAddOnly(st, inst, mk, n, rr) ==
    LET fetchedAll(res) ==
            [st |-> IF res.threw THEN res.st ELSE invoke(res.st, "success"),
             threw |-> res.threw]
    IN fetchedAll(add([st EXCEPT !.pending = Splice(@, n - 1, 1, <<>>)],
                      inst, rr, <<>>))

\* didFetch that drops the result of a fetch that settles before an older
\* one
didFetchInOrder(st, inst, mk, n, rr) ==
    LET fetchedOne(res) ==
            [st |-> IF res.threw THEN res.st ELSE invoke(res.st, "success"),
             threw |-> res.threw]
        fetchedNext(s0, o) ==
            IF n # 1 THEN [st |-> invoke(s0, "success"), threw |-> FALSE]
            ELSE IF o = "add" THEN fetchedOne(add(s0, inst, rr, <<>>))
            ELSE fetchedOne(merge(s0, inst, mk, rr))
    IN fetchedNext([st EXCEPT !.pending = Splice(@, n - 1, 1, <<>>)], st.pending[n])

\* didFetch(rec, opts, res) for the fetch at position n of pending, res
\* parsing to the batch rr; the success continuation follows the strategy
\* unless the strategy raised
didFetch(st, inst, mk, n, rr) ==
    LET fetchResult(res) ==
            [st |-> IF res.threw THEN res.st ELSE invoke(res.st, "success"),
             threw |-> res.threw]
        fetchStrategy(s0, o) ==
            IF o = "add" THEN fetchResult(add(s0, inst, rr, <<>>))
            ELSE fetchResult(merge(s0, inst, mk, rr))
    IN fetchStrategy([st EXCEPT !.pending = Splice(@, n - 1, 1, <<>>)], st.pending[n])

\* didFail that brings the dataset back before reporting the failure
didFailRestoring(st, n) ==
    invoke(reset([st EXCEPT !.pending = Splice(@, n - 1, 1, <<>>)], NoArg), "fail")

\* didFail("fetch", rec, opts, res): only the fail continuation runs
didFail(st, n) == invoke([st EXCEPT !.pending = Splice(@, n - 1, 1, <<>>)], "fail")

\* ------------------------------------------------------------ actions
\* the whole dataset: the undo buffer while filtered, else the sequence
Full == IF filtered THEN uRecords.recs ELSE records

\* the objects a caller can hold: its own and the records created so far
Known == {x \in Ids : heap[x].kind # "free"}

\* the sequences over S of length at most n
RECURSIVE SeqsOver(_, _)
SeqsOver(S, n) ==
    IF n = 0 THEN {<<>>}
    ELSE LET shorter == SeqsOver(S, n - 1)
         IN shorter \cup {Append(s, x) : s \in {t \in shorter : Len(t) = n - 1}, x \in S}

Range(s) == {s[j] : j \in 1..Len(s)}
NoRepeat(s) == Cardinality(Range(s)) = Len(s)

\* the batches a call may be handed
Batches == SeqsOver(Known, MaxBatch) \ {<<>>}
Singles == {<<x>> : x \in Known}

Hashes(batch) == {j \in 1..Len(batch) : ~IsModel(heap, batch[j])}

\* the index argument of add: omitted, or a number
Indices == {<<>>} \cup {<<i>> : i \in (-1)..(MaxLen + 1)}

\* The filter methods that can run in the current state.  "restore" is
\* listed while filtered only: otherwise its reset() does nothing and it is
\* the method "array".
NoPred == [kind |-> "none", m1 |-> {}, m2 |-> {}]
Preds ==
    {[kind |-> k, m1 |-> {}, m2 |-> {}] : k \in {"none", "true"}}
    \cup {[kind |-> k, m1 |-> m, m2 |-> {}] :
            k \in {"array", "self", "selfNone"}, m \in SUBSET (1..Len(records))}
    \cup {[kind |-> "restore", m1 |-> m, m2 |-> {}] :
            m \in IF filtered THEN SUBSET (1..Len(Full)) ELSE {}}
    \cup UNION {{[kind |-> "both", m1 |-> m, m2 |-> n] : n \in SUBSET (1..Cardinality(m))} :
                  m \in SUBSET (1..Len(records))}

NoOpts == [replace |-> FALSE, destroy |-> FALSE, strategy |-> "add"]
NoCall == [op |-> "new", n |-> 0, batch |-> <<>>, idx |-> <<>>, ret |-> <<>>,
           removed |-> {}, rr |-> <<>>, matched |-> <<>>, threw |-> FALSE,
           pred |-> NoPred, opts |-> NoOpts]

\* The call returns: the collection is left as st.  With detail on, events
\* and last record what the call c delivered, took and returned.
Return(after, call) ==
    \E st \in {after}, c \in {call} :
        /\ heap' = st.heap
        /\ records' = st.records
        /\ length' = st.length
        /\ filtered' = st.filtered
        /\ uRecords' = st.uRecords
        /\ activeFilter' = st.activeFilter
        /\ filtering' = st.filtering
        /\ silenced' = st.silenced
        /\ destroyingAll' = st.destroyingAll
        /\ store' = st.store
        /\ destroyed' = st.destroyed
        /\ scheduled' = st.scheduled
        /\ pending' = st.pending
        /\ events' = IF detail THEN st.events ELSE <<>>
        /\ last' = IF detail THEN [c EXCEPT !.n = last.n + 1] ELSE NoCall
        /\ base' = IF ~detail \/ st.filtered THEN base ELSE st.records
        /\ UNCHANGED <<instanceAllRecords, mergeKeys, preserveRecords, detail>>

Call(op) == [NoCall EXCEPT !.op = op]

\* add(batch, i); room bounds the dataset, cap the objects that exist
AddOf(B, I, room, cap) ==
    \E batch \in B, i \in I :
        /\ Len(Full) + Len(batch) <= room
        /\ instanceAllRecords =>
               Cardinality(Known) + Cardinality(Hashes(batch)) <= cap
        /\ \E res \in {add(Cur, instanceAllRecords, batch, i)} :
              Return(res.st, [Call("add") EXCEPT !.batch = batch, !.idx = i,
                                                 !.ret = res.ret,
                                                 !.threw = res.threw])

\* remove(batch)
RemoveOf(B) ==
    \E batch \in B :
        \E res \in {remove(Cur, batch)} :
           Return(res.st, [Call("remove") EXCEPT !.batch = batch,
                                                 !.removed = res.ret,
                                                 !.rr = res.rr])

\* removeAll()
RemoveAll ==
    \E res \in {removeAll(Cur)} :
       Return(res.st, [Call("removeAll") EXCEPT !.batch = records,
                                                !.removed = res.ret,
                                                !.rr = res.rr])

\* destroyAll()
DestroyAll ==
    \E res \in {destroyAll(Cur)} :
       Return(res.st, [Call("destroyAll") EXCEPT !.batch = records,
                                                 !.removed = res.ret,
                                                 !.rr = res.rr,
                                                 !.threw = res.threw])

\* destroy()
Destroy ==
    \E res \in {destroy(Cur, preserveRecords)} :
       Return(res.st, [Call("destroy") EXCEPT !.batch = records,
                                              !.removed = res.ret,
                                              !.rr = res.rr])

\* merge(batch)
MergeOf(B, room, cap) ==
    \E batch \in B :
        /\ Len(Full) + Len(batch) <= room
        /\ instanceAllRecords =>
               Cardinality(Known) + Cardinality(Hashes(batch)) <= cap
        /\ \E res \in {merge(Cur, instanceAllRecords, mergeKeys, batch)} :
              Return(res.st, [Call("merge") EXCEPT !.batch = batch,
                                                   !.matched = res.matched,
                                                   !.ret = res.add,
                                                   !.threw = res.threw])

\* reset()
Reset == Return(reset(Cur, NoArg), Call("reset"))

\* reset(array)
ResetOf(B) ==
    \E s \in B :
        Return(reset(Cur, Arg(s)),
               [Call("reset") EXCEPT !.batch = s, !.idx = <<0>>])

\* at(i), for the indices in range and the first one out of range
AtOf(cap) ==
    \E i \in 0..Len(records) :
        /\ Cardinality(Known) < cap
        /\ Return(at(Cur, i),
                  [Call("at") EXCEPT !.idx = <<i>>,
                                     !.threw = /\ ~store
                                               /\ i < Len(records)
                                               /\ ~IsModel(heap, records[i + 1])])

\* fetch(opts), with fewer than flights fetches unsettled
FetchOf(O, flights) ==
    \E o \in O :
        /\ Len(scheduled) + Len(pending) < flights
        /\ \E res \in {fetch(Cur, o)} :
              Return(res.st, [Call("fetch") EXCEPT !.threw = res.threw,
                                                   !.batch = Full,
                                                   !.opts = o])

\* the turn of the caller of fetch is over and the scheduled request is issued
FetchRecord ==
    /\ scheduled # <<>>
    /\ Return(fetchRecord(Cur), [Call("fetchRecord") EXCEPT !.threw = ~store])

\* the Source settles a fetch with success; the payload parses to a batch
DidFetchOf(B, room, cap) ==
    \E n \in 1..Len(pending), batch \in B :
        /\ Len(Full) + Len(batch) <= room
        /\ instanceAllRecords =>
               Cardinality(Known) + Cardinality(Hashes(batch)) <= cap
        /\ \E res \in {didFetch(Cur, instanceAllRecords, mergeKeys, n, batch)} :
              Return(res.st, [Call("didFetch") EXCEPT !.batch = batch,
                                                      !.threw = res.threw,
                                                      !.opts.strategy = pending[n]])

\* the Source settles a fetch with failure
DidFail ==
    \E n \in 1..Len(pending) : Return(didFail(Cur, n), Call("didFail"))

\* set("activeFilter", name) with another name
SetActiveFilter ==
    \E name \in FilterNames \ {activeFilter} :
        \E p \in IF name \in Filters THEN Preds ELSE {NoPred} :
            Return(setActiveFilter(Cur, name, p.kind, p.m1, p.m2),
                   [Call("activeFilter") EXCEPT !.pred = p, !.idx = <<0>>])

\* triggerEvent("filter"), by the caller or by an observer of filterProps
TriggerFilter ==
    \E p \in IF activeFilter \in Filters THEN Preds ELSE {NoPred} :
        Return(filterContent(triggerEvent(Cur, "filter", <<>>, {}),
                             p.kind, p.m1, p.m2),
               [Call("filter") EXCEPT !.pred = p])

\* clearFilter()
ClearFilter ==
    Return(IF activeFilter # "" THEN setActiveFilter(Cur, "", "none", {}, {})
           ELSE Cur,
           Call("clearFilter"))

\* ---------------------------------------------------- specifications
\* the objects the caller holds when the collection is constructed: raw
\* hashes and records of its own, alternating
UserObj(k) ==
    IF k % 2 = 0 THEN Instance([id |-> ((k - 1) % MaxVal) + 1, a |-> 2])
    ELSE Hash([id |-> ((k - 1) % MaxVal) + 1, a |-> 1], FALSE)

UserHeap(n) == [x \in Ids |-> IF x <= n THEN UserObj(x) ELSE FreeObj]

\* new enyo.Collection(data, opts): the collection the constructor leaves
Fresh(h, data) ==
    [heap |-> h, records |-> data, length |-> Len(data), filtered |-> FALSE,
     uRecords |-> Null, activeFilter |-> "", filtering |-> FALSE,
     silenced |-> FALSE, destroyingAll |-> FALSE, store |-> TRUE,
     destroyed |-> FALSE, scheduled |-> <<>>, pending |-> <<>>,
     events |-> <<>>]

\* the collection is st and no call has been made since
Start(st) ==
    /\ heap = st.heap
    /\ records = st.records
    /\ length = st.length
    /\ filtered = st.filtered
    /\ uRecords = st.uRecords
    /\ activeFilter = st.activeFilter
    /\ filtering = st.filtering
    /\ silenced = st.silenced
    /\ destroyingAll = st.destroyingAll
    /\ store = st.store
    /\ destroyed = st.destroyed
    /\ scheduled = st.scheduled
    /\ pending = st.pending
    /\ events = <<>>
    /\ last = NoCall
    /\ base = IF st.filtered THEN st.uRecords.recs ELSE st.records

Constructed(h, data) == Start(Fresh(h, data))

\* Spec: every interleaving of the public calls and of the settlements of
\* fetches, on a collection constructed with no, one or two records.  A
\* call is handed one record and no record is added twice; events and last
\* are not recorded.
Init ==
    /\ \E data \in {<<>>, <<1>>, <<1, 2>>} : Constructed(UserHeap(NumUser), data)
    /\ instanceAllRecords \in BOOLEAN
    /\ mergeKeys = <<>>
    /\ preserveRecords = FALSE
    /\ detail = FALSE

NewSingles == {b \in Singles : b[1] \notin Range(Full)}

Add == AddOf(NewSingles, {<<>>, <<0>>, <<1>>}, MaxData, NumUser + MaxMade)
Remove == RemoveOf(Singles)
Merge == MergeOf(Singles, MaxData, NumUser + MaxMade)
ResetArray == ResetOf({<<>>} \cup Singles)
At == AtOf(NumUser + MaxMade)
Fetch == FetchOf(FetchOpts, MaxFetch)
DidFetch == DidFetchOf({b \in NewSingles : ~IsModel(heap, b[1])},
                       MaxData, NumUser + MaxMade)

Next ==
    \/ Add
    \/ Remove
    \/ RemoveAll
    \/ DestroyAll
    \/ Merge
    \/ Reset
    \/ ResetArray
    \/ At
    \/ SetActiveFilter
    \/ TriggerFilter
    \/ ClearFilter
    \/ Fetch
    \/ FetchRecord
    \/ DidFetch
    \/ DidFail

Spec == Init /\ [][Next]_vars

\* SpecAdd: one add call, with any batch and any index, on a collection
\* constructed over up to two of the caller's objects.  The caller holds two
\* raw hashes, a record of its own and a raw hash marked destroyed.
AddHeap == [UserHeap(3) EXCEPT ![4] = Hash([id |-> 1, a |-> 2], TRUE)]

InitAdd ==
    /\ \E data \in {d \in SeqsOver(1..3, 2) : NoRepeat(d)} :
           Constructed(AddHeap, data)
    /\ instanceAllRecords \in BOOLEAN
    /\ mergeKeys = <<>>
    /\ preserveRecords = FALSE
    /\ detail = TRUE

NextAdd ==
    /\ last.n < MaxCalls
    /\ AddOf(Batches \cup {<<>>}, Indices, MaxLen, MaxObj)

SpecAdd == InitAdd /\ [][NextAdd]_vars

\* SpecRemove: one remove call, with any batch in any order, on a collection
\* constructed over up to four distinct objects of the caller.
InitRemove ==
    /\ \E data \in {d \in SeqsOver(1..4, MaxLen) : NoRepeat(d)} :
           Constructed(UserHeap(4), data)
    /\ instanceAllRecords = FALSE
    /\ mergeKeys = <<>>
    /\ preserveRecords = FALSE
    /\ detail = TRUE

NextRemove ==
    /\ last.n < MaxCalls
    /\ RemoveOf(Batches)

SpecRemove == InitRemove /\ [][NextRemove]_vars

\* SpecMerge: a merge call, and the same call once more, on a collection
\* constructed over a raw hash and a record, for every declaration of
\* mergeKeys.  The incoming items are another raw hash and another record;
\* every object has any primary key (or none) and any value of a.
AttrSets == [id : {Undef} \cup Vals, a : Vals]

MergeHeap(a1, a2, a3, a4) ==
    [x \in Ids |-> CASE x = 1 -> Hash(a1, FALSE)
                     [] x = 2 -> Instance(a2)
                     [] x = 3 -> Hash(a3, FALSE)
                     [] x = 4 -> Instance(a4)
                     [] OTHER -> FreeObj]

MergeKeySets == {<<>>, <<"a">>, <<"a", "id">>}

InitMerge ==
    /\ \E a1, a2, a3, a4 \in AttrSets, data \in {<<1>>, <<1, 2>>, <<2, 1>>} :
           Constructed(MergeHeap(a1, a2, a3, a4), data)
    /\ instanceAllRecords \in BOOLEAN
    /\ mergeKeys \in MergeKeySets
    /\ preserveRecords = FALSE
    /\ detail = TRUE

NextMerge ==
    /\ last.n < MaxMerges
    /\ MergeOf({b \in {<<3>>, <<4>>, <<3, 4>>, <<4, 3>>} : last.n = 0 \/ b = last.batch},
               MaxLen + MaxBatch, MaxObj)

SpecMerge == InitMerge /\ [][NextMerge]_vars

\* SpecFiltered: one call of add, remove, merge or removeAll on a collection
\* that a filter pass has left filtered: the filter f1 was made active on a
\* collection constructed over two or three of the caller's objects, and its
\* method returned a selection of them.
InitFiltered ==
    /\ \E data \in {d \in SeqsOver(1..3, 3) : NoRepeat(d) /\ Len(d) >= 2} :
           \E m \in SUBSET (1..Len(data)) :
               Start(setActiveFilter(Fresh(UserHeap(3), data), "f1", "array", m, {}))
    /\ instanceAllRecords \in BOOLEAN
    /\ mergeKeys = <<>>
    /\ preserveRecords = FALSE
    /\ detail = TRUE

Once == last.n < MaxCalls

AddFiltered == Once /\ AddOf(Singles, Indices, MaxLen, MaxObj)
RemoveFiltered == Once /\ RemoveOf({b \in Batches : Len(b) <= 2})
MergeFiltered == Once /\ MergeOf(Singles, MaxLen, MaxObj)
RemoveAllFiltered == Once /\ RemoveAll

NextFiltered ==
    \/ AddFiltered
    \/ RemoveFiltered
    \/ MergeFiltered
    \/ RemoveAllFiltered

SpecFiltered == InitFiltered /\ [][NextFiltered]_vars

\* SpecFilter: up to MaxPasses filter passes (a filter made active, another
\* made active instead, the active one run again), with every kind of filter
\* method, and then reset(), on a collection constructed over two or three
\* of the caller's objects.
InitFilter ==
    /\ \E data \in {<<1, 2>>, <<1, 2, 3>>} : Constructed(UserHeap(3), data)
    /\ instanceAllRecords = FALSE
    /\ mergeKeys = <<>>
    /\ preserveRecords = FALSE
    /\ detail = TRUE

FirstPasses == last.n < MaxPasses /\ last.op # "reset"

ActivatePass == FirstPasses /\ SetActiveFilter
RepeatPass == FirstPasses /\ TriggerFilter
ResetAfter == last.n >= 1 /\ last.op # "reset" /\ Reset

NextFilter ==
    \/ ActivatePass
    \/ RepeatPass
    \/ ResetAfter

SpecFilter == InitFilter /\ [][NextFilter]_vars

\* SpecDestroy: destroyAll() or destroy() on a collection constructed over
\* one to three of the caller's objects (raw hashes and a record of its own),
\* after up to MaxReads reads through at() that materialize raw slots and,
\* possibly, a filter made active; and one read after destroy().
InitDestroy ==
    /\ \E data \in {d \in SeqsOver(1..3, 3) : NoRepeat(d) /\ d # <<>>} :
           Constructed(UserHeap(3), data)
    /\ instanceAllRecords = FALSE
    /\ mergeKeys = <<>>
    /\ preserveRecords \in BOOLEAN
    /\ detail = TRUE

Intact == ~destroyed /\ last.op \in {"new", "at", "activeFilter"}

ReadBefore == Intact /\ last.op # "activeFilter" /\ last.n < MaxReads /\ AtOf(MaxObj)
FilterBefore == Intact /\ last.op # "activeFilter" /\ SetActiveFilter
DestroyAllOnce == Intact /\ DestroyAll
DestroyOnce == Intact /\ Destroy
ReadAfter == last.op = "destroy" /\ AtOf(MaxObj)

NextDestroy ==
    \/ ReadBefore
    \/ FilterBefore
    \/ DestroyAllOnce
    \/ DestroyOnce
    \/ ReadAfter

SpecDestroy == InitDestroy /\ [][NextDestroy]_vars

\* SpecFetch: up to MaxFlights fetches unsettled at a time, with any options,
\* on a collection constructed over a raw hash and a record of the caller;
\* each request is issued after its fetch returned and settles with success
\* (the payload a batch of raw hashes not yet in the collection) or failure,
\* in any order; adds, removes and filter changes come in between.  At most
\* MaxSteps steps in all, from the constructed collection or from where two
\* fetches without replace or destroy are already in flight.
FetchHeap == [UserHeap(2) EXCEPT ![3] = Hash([id |-> 1, a |-> 2], FALSE),
                                 ![4] = Hash([id |-> 2, a |-> 1], FALSE)]

\* the collection after fetch was called once for each strategy of ss and
\* the requests were issued
InFlight(st, ss) == [st EXCEPT !.pending = ss]

InitFetch ==
    /\ \E data \in {d \in SeqsOver(1..2, 2) : NoRepeat(d)} :
           \E ss \in {<<>>} \cup {<<s1, s2>> : s1 \in Strategies, s2 \in Strategies} :
               Start(InFlight(Fresh(FetchHeap, data), ss))
    /\ instanceAllRecords \in BOOLEAN
    /\ mergeKeys = <<>>
    /\ preserveRecords = FALSE
    /\ detail = TRUE

Payloads == {b \in SeqsOver({3, 4}, 2) : b # <<>> /\ NoRepeat(b) /\ Range(b) \cap Range(Full) = {}}
Stepping == last.n < MaxSteps

FetchCall == Stepping /\ FetchOf(FetchOpts, MaxFlights)
FetchIssue == Stepping /\ FetchRecord
FetchSuccess == Stepping /\ DidFetchOf(Payloads, MaxLen, MaxObj)
FetchFailure == Stepping /\ DidFail
AddBetween == Stepping /\ AddOf({<<x>> : x \in {1, 2} \ Range(Full)}, {<<>>}, MaxLen, MaxObj)
RemoveBetween == Stepping /\ RemoveOf({<<x>> : x \in Range(Full)})
FilterBetween ==
    /\ Stepping
    /\ \E name \in FilterNames \ {activeFilter} :
          \E p \in IF name \in Filters THEN {q \in Preds : q.kind = "array"}
                    ELSE {NoPred} :
              Return(setActiveFilter(Cur, name, p.kind, p.m1, p.m2),
                     [Call("activeFilter") EXCEPT !.pred = p, !.idx = <<0>>])

NextFetch ==
    \/ FetchCall
    \/ FetchIssue
    \/ FetchSuccess
    \/ FetchFailure
    \/ AddBetween
    \/ RemoveBetween
    \/ FilterBetween

SpecFetch == InitFetch /\ [][NextFetch]_vars

\* SpecNotify: up to MaxMutations calls of the mutators (add, remove, merge,
\* removeAll, destroyAll, reset, a filter made active or run again with any
\* kind of filter method), each with its notifications recorded, on a
\* collection constructed over up to three of the caller's objects.
InitNotify ==
    /\ \E data \in {d \in SeqsOver(1..3, 3) : NoRepeat(d)} :
           Constructed(UserHeap(3), data)
    /\ instanceAllRecords = FALSE
    /\ mergeKeys = <<>>
    /\ preserveRecords = FALSE
    /\ detail = TRUE

Mutating == last.n < MaxMutations

AddNotify == Mutating /\ AddOf({<<x>> : x \in 1..3}, {<<>>}, MaxLen + 1, MaxObj)
RemoveNotify == Mutating /\ RemoveOf({<<x>> : x \in 1..3})
MergeNotify == Mutating /\ MergeOf({<<x>> : x \in 1..3}, MaxLen + 1, MaxObj)
RemoveAllNotify == Mutating /\ RemoveAll
DestroyAllNotify == Mutating /\ DestroyAll
ResetNotify == Mutating /\ Reset
ResetArrayNotify == Mutating /\ ResetOf({<<>>, <<1>>, <<2, 3>>})
ActivateNotify == Mutating /\ SetActiveFilter
PassNotify == Mutating /\ TriggerFilter

NextNotify ==
    \/ AddNotify
    \/ RemoveNotify
    \/ MergeNotify
    \/ RemoveAllNotify
    \/ DestroyAllNotify
    \/ ResetNotify
    \/ ResetArrayNotify
    \/ ActivateNotify
    \/ PassNotify

SpecNotify == InitNotify /\ [][NextNotify]_vars

\* SpecAt: up to MaxAccesses calls among at(i) (map and filter read through
\* at, slot by slot), add, remove and merge of one record, a filter made
\* active or cleared, and reset(), on a collection constructed over up to
\* three of the caller's objects, raw hashes and a record.
InitAt ==
    /\ \E data \in {d \in SeqsOver(1..3, 3) : NoRepeat(d) /\ d # <<>>} :
           Constructed(UserHeap(3), data)
    /\ instanceAllRecords = FALSE
    /\ mergeKeys = <<>>
    /\ preserveRecords = FALSE
    /\ detail = TRUE

Accessing == last.n < MaxAccesses

AtSlot == Accessing /\ AtOf(MaxObj)
AddSlot == Accessing /\ AddOf({<<x>> : x \in (1..3) \ Range(Full)}, {<<>>, <<0>>}, MaxLen, MaxObj)
RemoveSlot == Accessing /\ RemoveOf({<<x>> : x \in Range(Full) \cup Range(records)})
MergeSlot == Accessing /\ MergeOf({<<x>> : x \in 1..3}, MaxLen, MaxObj)
FilterSlots ==
    /\ Accessing
    /\ \E name \in FilterNames \ {activeFilter} :
          \E p \in IF name \in Filters THEN {q \in Preds : q.kind = "array"}
                    ELSE {NoPred} :
              Return(setActiveFilter(Cur, name, p.kind, p.m1, p.m2),
                     [Call("activeFilter") EXCEPT !.pred = p, !.idx = <<0>>])
RestoreSlots == Accessing /\ filtered /\ Reset

NextAt ==
    \/ AtSlot
    \/ AddSlot
    \/ RemoveSlot
    \/ MergeSlot
    \/ FilterSlots
    \/ RestoreSlots

SpecAt == InitAt /\ [][NextAt]_vars

\* SpecRestore: up to MaxRestores calls among reset(), clearFilter(), a
\* change of activeFilter (to no filter or to the other one) and a filter
\* pass run again, on a collection that was filtered through f1 with a
\* method returning a selection of its two or three records.
InitRestore ==
    /\ \E data \in {d \in SeqsOver(1..3, 3) : NoRepeat(d) /\ Len(d) >= 2} :
           \E m \in SUBSET (1..Len(data)) :
               Start(setActiveFilter(Fresh(UserHeap(3), data), "f1", "array", m, {}))
    /\ instanceAllRecords = FALSE
    /\ mergeKeys = <<>>
    /\ preserveRecords = FALSE
    /\ detail = TRUE

Restoring == last.n < MaxRestores

RestoreByReset == Restoring /\ Reset
RestoreByClear == Restoring /\ ClearFilter
ChangeFilter == Restoring /\ SetActiveFilter
PassAgain == Restoring /\ TriggerFilter

NextRestore ==
    \/ RestoreByReset
    \/ RestoreByClear
    \/ ChangeFilter
    \/ PassAgain

SpecRestore == InitRestore /\ [][NextRestore]_vars

\* SpecNested: filter passes followed step by step (the pass is entered, the
\* filter method resets, the method returns, the pass ends), with requests
\* for a filter pass arriving in between: from inside the method, and from a
\* listener of the reset event the pass emits.  The collection was
\* constructed over two or three records and f1 was made active with a
\* method returning nothing or a selection.  At most MaxNested steps start
\* something; a pass entered is always completed.
InitNested ==
    /\ \E data \in {<<1, 2>>, <<2, 1, 3>>} :
           \E p \in {NoPred} \cup {[kind |-> "array", m1 |-> m, m2 |-> {}] :
                                        m \in SUBSET (1..Len(data))} :
               Start(setActiveFilter(Fresh(UserHeap(3), data), "f1", p.kind, p.m1, p.m2))
    /\ instanceAllRecords = FALSE
    /\ mergeKeys = <<>>
    /\ preserveRecords = FALSE
    /\ detail = TRUE

Nesting == last.n < MaxNested
InMethod == filtering /\ silenced
InListener ==
    /\ filtering
    /\ ~silenced
    /\ \E k \in 1..Len(events) : events[k].type = "reset"

PassEnter ==
    /\ Nesting
    /\ ~filtering
    /\ Return(passEnter(triggerEvent(Cur, "filter", <<>>, {})), Call("passEnter"))
MethodResets ==
    /\ Nesting
    /\ InMethod
    /\ \/ \E m \in SUBSET (1..Len(records)) :
              Return(reset(Cur, Arg(Sub(records, m, 1))),
                     [Call("methodReset") EXCEPT !.idx = <<0>>])
       \/ Return(reset(Cur, NoArg), Call("methodReset"))
MethodReturns ==
    /\ InMethod
    /\ \E r \in {"falsy", "true", "array"} :
          \E m \in IF r = "array" THEN SUBSET (1..Len(records)) ELSE {{}} :
              Return(methodReturned(Cur, r, Sub(records, m, 1)),
                     [Call("methodReturn") EXCEPT
                         !.pred = [kind |-> IF r = "falsy" THEN "none" ELSE r,
                                   m1 |-> m, m2 |-> {}]])
PassEnd ==
    /\ filtering
    /\ ~silenced
    /\ Return(passEnd(Cur), Call("passEnd"))
NestedRequest ==
    /\ Nesting
    /\ InMethod \/ InListener
    /\ \E p \in Preds :
          Return(requestFilter(Cur, p.kind, p.m1, p.m2),
                 [Call("nested") EXCEPT !.pred = p])
NestedActivate ==
    /\ Nesting
    /\ InListener
    /\ \E name \in Filters \ {activeFilter} :
          \E p \in Preds :
              Return(setActiveFilter(Cur, name, p.kind, p.m1, p.m2),
                     [Call("nestedActivate") EXCEPT !.pred = p])

NextNested ==
    \/ PassEnter
    \/ MethodResets
    \/ MethodReturns
    \/ PassEnd
    \/ NestedRequest
    \/ NestedActivate

SpecNested == InitNested /\ [][NextNested]_vars

\* SpecMember: up to MaxDestroys calls among at(i), add of one of the
\* caller's objects, a filter made active or cleared, reset(), and
\* rec.destroy() called by whoever holds a Record that is in the
\* collection, on a collection constructed over up to three of the
\* caller's objects, raw hashes and a record.
InitMember ==
    /\ \E data \in {d \in SeqsOver(1..3, 3) : NoRepeat(d) /\ d # <<>>} :
           Constructed(UserHeap(3), data)
    /\ instanceAllRecords = FALSE
    /\ mergeKeys = <<>>
    /\ preserveRecords = FALSE
    /\ detail = TRUE

Destroying == last.n < MaxDestroys

AtMember == Destroying /\ AtOf(MaxObj)
AddMember ==
    /\ Destroying
    /\ AddOf({<<x>> : x \in {y \in (1..3) \ Range(Full) : ~heap[y].destroyed}},
             {<<>>}, MaxLen, MaxObj)
FilterMember ==
    /\ Destroying
    /\ \E name \in FilterNames \ {activeFilter} :
          \E p \in IF name \in Filters THEN {q \in Preds : q.kind = "array"}
                    ELSE {NoPred} :
              Return(setActiveFilter(Cur, name, p.kind, p.m1, p.m2),
                     [Call("activeFilter") EXCEPT !.pred = p, !.idx = <<0>>])
RestoreMember == Destroying /\ filtered /\ Reset
DestroyMember ==
    /\ Destroying
    /\ \E r \in Range(Full) \cup Range(records) :
          /\ IsModel(heap, r)
          /\ ~heap[r].destroyed
          /\ Return(destroyRecord(Cur, r),
                    [Call("recordDestroy") EXCEPT !.batch = <<r>>])

NextMember ==
    \/ AtMember
    \/ AddMember
    \/ FilterMember
    \/ RestoreMember
    \/ DestroyMember

SpecMember == InitMember /\ [][NextMember]_vars

\* SpecLate: up to MaxLate steps among fetch (no replace, no destroy), the
\* issue of a scheduled request, destroy(), and the success or the failure
\* of a request in flight, before and after destroy(), on a collection
\* constructed over up to two raw hashes with no or two requests in flight.
InitLate ==
    /\ \E data \in {d \in SeqsOver(1..2, 2) : NoRepeat(d)} :
           \E ss \in {<<>>} \cup {<<s1, s2>> : s1 \in Strategies, s2 \in Strategies} :
               Start(InFlight(Fresh(FetchHeap, data), ss))
    /\ instanceAllRecords = FALSE
    /\ mergeKeys = <<>>
    /\ preserveRecords \in BOOLEAN
    /\ detail = TRUE

Settling == last.n < MaxLate

FetchBefore ==
    /\ Settling
    /\ ~destroyed
    /\ FetchOf({o \in FetchOpts : ~o.replace /\ ~o.destroy}, MaxFlights)
IssueRequest == Settling /\ FetchRecord
DestroyBetween == Settling /\ ~destroyed /\ Destroy
SettleSuccess ==
    /\ Settling
    /\ DidFetchOf({b \in SeqsOver({3, 4}, 2) :
                      b # <<>> /\ NoRepeat(b) /\ Range(b) \cap Range(Full) = {}},
                  MaxLen, MaxObj)
SettleFailure == Settling /\ DidFail

NextLate ==
    \/ FetchBefore
    \/ IssueRequest
    \/ DestroyBetween
    \/ SettleSuccess
    \/ SettleFailure

SpecLate == InitLate /\ [][NextLate]_vars

\* the types of the events the last call delivered
Types(evs) == {evs[j].type : j \in 1..Len(evs)}

\* s is t with some entries left out
RECURSIVE IsSubSeq(_, _)
IsSubSeq(s, t) ==
    IF s = <<>> THEN TRUE
    ELSE IF t = <<>> THEN FALSE
    ELSE IF Head(s) = Head(t) THEN IsSubSeq(Tail(s), Tail(t))
    ELSE IsSubSeq(s, Tail(t))

IsPrefix(s, t) == Len(s) <= Len(t) /\ SubSeq(t, 1, Len(s)) = s

\* C1: whenever no call is in progress, the cached length is the number of
\* slots of the visible sequence.
LengthIsSlotCount == length = Len(records)

\* C1 witness: a filter pass has left a filtered view shorter than the
\* dataset, with a fetch still in flight.
LengthAfterFilterPass ==
    filtered /\ length = 1 /\ Len(uRecords.recs) = 2 /\ pending # <<>>

\* the slot x of the collection after add holds the batch entry b
Holds(x, b) ==
    IF IsModel(heap, b) \/ ~instanceAllRecords THEN x = b
    ELSE /\ heap[x].kind = "free"
         /\ IsModel(heap', x)
         /\ heap'[x].attrs = heap[b].attrs

\* after add, the batch sits at index p and the old slots around it
BatchAt(p, batch) ==
    LET L == Len(records)
        n == Len(batch)
    IN /\ Len(records') = L + n
       /\ SubSeq(records', 1, p) = SubSeq(records, 1, p)
       /\ \A j \in 1..n : Holds(records'[p + j], batch[j])
       /\ SubSeq(records', p + n + 1, L + n) = SubSeq(records, p + 1, L)

\* the index the clamping rule gives: i within 0..L, 0 below, L above or
\* when omitted
Clamped(i, L) ==
    IF i = <<>> THEN L
    ELSE IF i[1] < 0 THEN 0
    ELSE IF i[1] > L THEN L
    ELSE i[1]

\* C2: add(batch, i) on an unfiltered collection of length L puts the batch,
\* in its order, at positions p..p+n-1 where p is i clamped to 0..L (L when
\* i is omitted), and the old slots keep their order around it.
AddPlacesBatchAtClampedIndex ==
    [][(last'.op = "add" /\ ~last'.threw /\ last'.batch # <<>> /\ ~filtered)
       => BatchAt(Clamped(last'.idx, Len(records)), last'.batch)
      ]_vars

\* the indices j-1+p of the entries of the batch that are not records
RECURSIVE Reported(_, _, _)
Reported(batch, p, j) ==
    IF j > Len(batch) THEN <<>>
    ELSE (IF IsModel(heap, batch[j]) THEN <<>> ELSE <<(j - 1) + p>>)
         \o Reported(batch, p, j + 1)

AddEvents(evs) == {k \in 1..Len(evs) : evs[k].type = "add"}

FoundAt(batch) == {indexOf(Cur, batch[j]) : j \in 1..Len(batch)} \ {-1}

\* C4: remove(batch), the batch naming each record once in any order,
\* returns a map whose keys are the indices its members had, leaves the
\* sequence with exactly those positions deleted, and length smaller by the
\* number of members found.
RemoveDeletesFoundPositions ==
    [][(last'.op = "remove" /\ ~filtered /\ NoRepeat(last'.batch))
       => LET found == FoundAt(last'.batch)
          IN /\ {pr[1] : pr \in last'.removed} = found
             /\ \A pr \in last'.removed : records[pr[1] + 1] = pr[2]
             /\ records' = Sub(records, {j \in 1..Len(records) : j - 1 \notin found}, 1)
             /\ length' = Len(records) - Cardinality(found)
      ]_vars

\* the least member of a non-empty set of numbers
Least(S) == CHOOSE x \in S : \A y \in S : x <= y

\* For each item of the batch in turn, the index of the first slot not yet
\* taken by an earlier item whose primary key equals the item's defined
\* primary key, or -1.
RECURSIVE FirstByKey(_, _, _)
FirstByKey(batch, j, used) ==
    IF j > Len(batch) THEN <<>>
    ELSE LET v == heap[batch[j]].attrs[pk]
             cands == {n \in 1..Len(records) :
                         /\ n \notin used
                         /\ v # Undef
                         /\ heap[records[n]].attrs[pk] = v}
         IN IF cands = {} THEN <<-1>> \o FirstByKey(batch, j + 1, used)
            ELSE <<Least(cands) - 1>>
                 \o FirstByKey(batch, j + 1, used \cup {Least(cands)})

\* the attributes a slot has once the item's defined ones are laid over it
Over(old, new) == [k \in Keys |-> IF new[k] # Undef THEN new[k] ELSE old[k]]

\* C5: with no mergeKeys declared, merge matches each item that has a
\* primary key with the first slot not yet taken whose primary key is equal,
\* updates that slot where it is, leaves every other slot as it was and
\* appends only the items without a match.
MergeByPrimaryKey ==
    [][(last'.op = "merge" /\ mergeKeys = <<>> /\ ~filtered)
       => LET batch == last'.batch
              exp == FirstByKey(batch, 1, {})
              L == Len(records)
          IN /\ last'.matched = exp
             /\ SubSeq(records', 1, L) = records
             /\ Len(records') = L + Cardinality({j \in 1..Len(batch) : exp[j] = -1})
             /\ length' = Len(records')
             /\ \A n \in 1..L :
                    /\ Cardinality({j \in 1..Len(batch) : exp[j] = n - 1}) <= 1
                    /\ heap'[records[n]].kind = heap[records[n]].kind
                    /\ \A j \in 1..Len(batch) :
                           exp[j] = n - 1 =>
                               heap'[records[n]].attrs =
                                   Over(heap[records[n]].attrs, heap[batch[j]].attrs)
                    /\ (\A j \in 1..Len(batch) : exp[j] # n - 1) =>
                           heap'[records[n]] = heap[records[n]]
      ]_vars

\* C5 witness: slots with keys 1 and 2 and a = 1 in the first; an item with
\* key 1 and a = 2 was merged: length is still 2 and the slot at index 0
\* now has a = 2.
MergedIntoFirstSlot ==
    /\ last.op = "merge" /\ last.n = 1 /\ mergeKeys = <<>>
    /\ Len(last.batch) = 1 /\ last.matched = <<0>>
    /\ length = 2
    /\ heap[records[1]].attrs = [id |-> 1, a |-> 2]
    /\ heap[records[2]].attrs[pk] = 2
    /\ records = base

\* C6: with mergeKeys declared, a slot is updated by an item only when the
\* two agree on every merge key (or, at the least, on a defined primary
\* key).
MergeOnlyOnEqualKeys ==
    [][(last'.op = "merge" /\ mergeKeys # <<>> /\ ~filtered)
       => \A j \in 1..Len(last'.batch) :
             last'.matched[j] > -1 =>
                 LET r == heap[last'.batch[j]].attrs
                     c == heap[records[last'.matched[j] + 1]].attrs
                 IN \/ \A k \in 1..Len(mergeKeys) : r[mergeKeys[k]] = c[mergeKeys[k]]
                    \/ (r[pk] # Undef /\ r[pk] = c[pk])
      ]_vars

\* the batch equals the contents by key: item by item it has the primary
\* key and the merge keys of the slot at the same index, and a key to match
\* on
SameByKey(h, batch, recs) ==
    /\ Len(batch) = Len(recs)
    /\ \A j \in 1..Len(batch) :
           /\ h[batch[j]].attrs[pk] = h[recs[j]].attrs[pk]
           /\ \A k \in 1..Len(mergeKeys) :
                  h[batch[j]].attrs[mergeKeys[k]] = h[recs[j]].attrs[mergeKeys[k]]
           /\ mergeKeys = <<>> => h[batch[j]].attrs[pk] # Undef

\* C7: merging a batch that equals the contents by key leaves the sequence
\* and length as they are and emits nothing; the batch still equals the
\* contents, and merging it again changes nothing at all.
MergeOfContentsIdempotent ==
    [][(last'.op = "merge" /\ ~filtered /\ SameByKey(heap, last'.batch, records))
       => /\ records' = records
          /\ length' = length
          /\ events' = <<>>
          /\ last'.ret = <<>>
          /\ SameByKey(heap', last'.batch, records')
          /\ (last.op = "merge" /\ last.batch = last'.batch) => heap' = heap
      ]_vars

\* C7 witness: the two items of a batch that equals the contents by key
\* were merged a second time.
MergedContentsTwice ==
    /\ last.op = "merge" /\ last.n = 2
    /\ Len(last.batch) = 2
    /\ SameByKey(heap, last.batch, records)
    /\ records = base
    /\ last.matched = <<0, 1>>

\* the collection a call made now leaves when the unfiltered sequence is
\* restored first and the call then works on the whole dataset
OnRestored(c) ==
    LET full == reset(Cur, NoArg)
    IN CASE c.op = "add" -> add(full, instanceAllRecords, c.batch, c.idx).st
         [] c.op = "remove" -> remove(full, c.batch).st
         [] c.op = "merge" -> merge(full, instanceAllRecords, mergeKeys, c.batch).st
         [] c.op = "removeAll" -> remove(full, full.records).st

\* C8: add, remove, merge and removeAll, called while filtered, first
\* restore the unfiltered sequence (a reset event, filtered false) and then
\* do their work on the whole dataset: the outcome is that of the same call
\* made after reset().
MutatorsRestoreFirst ==
    [][(filtered /\ last'.op \in {"add", "remove", "merge", "removeAll"}
        /\ ~last'.threw)
       => /\ ~filtered'
          /\ uRecords' = Null
          /\ "reset" \in Types(events')
          /\ records' = OnRestored(last').records
          /\ heap' = OnRestored(last').heap
          /\ length' = OnRestored(last').length
      ]_vars

\* C9: removeAll() leaves the collection empty, also when it is called while
\* filtered, and destroys no record.
RemoveAllEmpties ==
    [][RemoveAll
       => /\ records' = <<>>
          /\ length' = 0
          /\ ~filtered'
          /\ \A x \in Ids : heap'[x].destroyed = heap[x].destroyed
      ]_vars

\* C10: reset() with no arguments, called while filtered after any filter
\* passes, restores the sequence that was visible before the first of them,
\* leaves the collection unfiltered and clears the undo buffer.
ResetRestoresPreFilterSequence ==
    [][(filtered /\ last'.op = "reset" /\ last'.idx = <<>>)
       => (records' = base /\ ~filtered' /\ uRecords' = Null)
      ]_vars


\* the number of events of a type among evs
Count(evs, type) == Cardinality({j \in 1..Len(evs) : evs[j].type = type})

\* C11: destroyAll() on an unfiltered, non-empty collection of raw-hash
\* slots and records completes without raising, leaves the collection empty
\* with length 0 and every former slot's object destroyed, and emits exactly
\* one remove event.
DestroyAllDestroysEverySlot ==
    [][(last'.op = "destroyAll" /\ ~filtered /\ records # <<>>) =>
        /\ ~last'.threw
        /\ records' = <<>>
        /\ length' = 0
        /\ \A j \in 1..Len(records) : heap'[records[j]].destroyed
        /\ Count(events', "remove") = 1]_vars


\* C12: destroy() removes every record of the whole dataset, also when the
\* collection is filtered; it destroys the records the collection owns, or
\* with preserveRecords releases them and destroys none; records the
\* collection does not own are not destroyed; one destroy event is emitted,
\* the store reference is cleared, and destroyed is set and stays set.
DestroyRemovesAndCascades ==
    [][/\ destroyed => destroyed'
       /\ (last'.op = "destroy") =>
            /\ records' = <<>>
            /\ length' = 0
            /\ \A r \in Range(Full) :
                   /\ (heap[r].owner /\ ~preserveRecords) => heap'[r].destroyed
                   /\ (heap[r].owner /\ preserveRecords) =>
                          (~heap'[r].owner /\ ~heap'[r].destroyed)
                   /\ ~heap[r].owner => heap'[r].destroyed = heap[r].destroyed
            /\ Count(events', "destroy") = 1
            /\ ~store'
            /\ destroyed']_vars


\* the batch holds a raw hash that is marked destroyed
HasDestroyedHash(batch) ==
    \E j \in 1..Len(batch) : ~IsModel(heap, batch[j]) /\ heap[batch[j]].destroyed

\* C13: add of a batch that holds a raw hash marked destroyed raises, with
\* instanceAllRecords set or not and wherever the hash is in the batch, and
\* then leaves the sequence and length as they were and emits nothing.
AddOfDestroyedHashFails ==
    [][(last'.op = "add" /\ HasDestroyedHash(last'.batch)) =>
        /\ last'.threw
        /\ records' = records
        /\ length' = length
        /\ events' = <<>>]_vars


\* C14: a request reaches the Source only in a step of its own after fetch
\* returned, once per fetch; when fetch returns the collection is unfiltered
\* and, with replace and not destroy, empty with no record destroyed; with
\* destroy, empty with every record that was in it destroyed; with neither,
\* the whole dataset as it was.
FetchClearsBeforeRequest ==
    [][/\ Len(pending') > Len(pending) =>
            /\ last'.op = "fetchRecord"
            /\ pending' = Append(pending, Head(scheduled))
            /\ scheduled' = Tail(scheduled)
       /\ last'.op = "fetch" =>
            /\ scheduled' = Append(scheduled, last'.opts.strategy)
            /\ pending' = pending
            /\ ~filtered'
            /\ (last'.opts.replace /\ ~last'.opts.destroy) =>
                   /\ records' = <<>>
                   /\ \A r \in Range(Full) : heap'[r].destroyed = heap[r].destroyed
            /\ last'.opts.destroy =>
                   /\ records' = <<>>
                   /\ \A r \in Range(Full) : IsModel(heap, r) => heap'[r].destroyed
            /\ (~last'.opts.replace /\ ~last'.opts.destroy) =>
                   (records' = Full /\ heap' = heap)]_vars


\* after the call the collection is unfiltered and its sequence is whole
\* followed by the batch
AppendedTo(whole, batch) ==
    /\ ~filtered'
    /\ Len(records') = Len(whole) + Len(batch)
    /\ SubSeq(records', 1, Len(whole)) = whole
    /\ \A j \in 1..Len(batch) : Holds(records'[Len(whole) + j], batch[j])

\* the entries of the batch whose primary key no slot of recs has
Unmatched(batch, recs) ==
    {j \in 1..Len(batch) :
        \A n \in 1..Len(recs) : Get(heap, recs[n], pk) # Get(heap, batch[j], pk)}

\* C15: when a fetch succeeds, with strategy "add" the result is appended to
\* the dataset in its order; with strategy "merge" the primary key of every
\* item of the result is found in the dataset afterwards, and on an
\* unfiltered collection only the items no slot matched were appended; the success continuation is
\* invoked once, after the mutation, and the fail continuation is not.
SuccessDispatchesByStrategy ==
    [][last'.op = "didFetch" =>
        /\ last'.opts.strategy = "add" => AppendedTo(Full, last'.batch)
        /\ last'.opts.strategy = "merge" =>
              /\ \A j \in 1..Len(last'.batch) :
                    \E n \in 1..Len(Full') :
                        Get(heap', Full'[n], pk) = Get(heap, last'.batch[j], pk)
              /\ ~filtered =>
                    Len(records') = Len(records)
                                    + Cardinality(Unmatched(last'.batch, records))
        /\ Count(events', "success") = 1
        /\ Count(events', "fail") = 0
        /\ events'[Len(events')].type = "success"
        /\ Len(pending') = Len(pending) - 1]_vars

\* a fetch with strategy "merge" settled with a result of two items, one
\* merged into a slot and one appended
MergedAndAppendedResult ==
    /\ last.op = "didFetch"
    /\ last.opts.strategy = "merge"
    /\ Len(last.batch) = 2
    /\ length = 2
    /\ ~filtered
    /\ Count(events, "add") = 1


\* C16: when the Source reports the failure of a fetch, the fail continuation
\* is the only thing that runs: it is invoked once, the success continuation
\* is not, nothing is raised, the sequence, the length, the filtered flag,
\* the undo buffer and every record are as they were before the Source
\* settled, and no add, remove, reset or length notification is emitted.
FailureOnlyReports ==
    [][last'.op = "didFail" =>
        /\ records' = records
        /\ length' = length
        /\ filtered' = filtered
        /\ uRecords' = uRecords
        /\ heap' = heap
        /\ activeFilter' = activeFilter
        /\ ~last'.threw
        /\ Len(events') = 1
        /\ events'[1].type = "fail"
        /\ Len(pending') = Len(pending) - 1
        /\ scheduled' = scheduled]_vars

\* a fetch failed on a filtered collection while another one is in flight
FailedWhileFiltered ==
    /\ last.op = "didFail"
    /\ filtered
    /\ Len(records) < Len(Full)
    /\ Len(pending) = 1


\* C17: whichever of the fetches in flight settles, and whatever was added,
\* removed or filtered since it was called, a success with strategy "add"
\* leaves the collection unfiltered with every item of its result in the
\* sequence, keeps every slot the dataset had before it (the results of the
\* fetches settled earlier among them) in order, and leaves the other
\* fetches in flight.
SettlesInFullInAnyOrder ==
    [][(last'.op = "didFetch" /\ last'.opts.strategy = "add") =>
        /\ ~filtered'
        /\ IsSubSeq(Full, records')
        /\ \A j \in 1..Len(last'.batch) :
              \E n \in (Len(Full) + 1)..Len(records') :
                  Holds(records'[n], last'.batch[j])
        /\ \E n \in 1..Len(pending) :
              /\ pending[n] = "add"
              /\ pending' = Splice(pending, n - 1, 1, <<>>)]_vars

\* two fetches settled one after the other with a filter set in between:
\* both results are in the unfiltered sequence
BothResultsKept ==
    /\ last.op = "didFetch"
    /\ last.opts.strategy = "add"
    /\ Len(last.batch) = 1
    /\ activeFilter # ""
    /\ ~filtered
    /\ Len(records) = 2
    /\ \E m, n \in 1..2 :
          /\ m # n
          /\ heap[records[m]].attrs = heap[3].attrs
          /\ heap[records[n]].attrs = heap[4].attrs


\* C18: a call of a mutator (add, remove, merge, removeAll, destroyAll,
\* reset, a filter pass) notifies the observers of length if and only if
\* length differs between the start and the end of the call.
LengthNotifiedIffChanged ==
    [][Count(events', "length") > 0 <=> length' # length]_vars


\* C19: while activeFilter names a filter, a call of add that adds records
\* runs the filter method again before it returns.
AddRunsActiveFilter ==
    [][(/\ last'.op = "add"
        /\ activeFilter \in Filters
        /\ last'.batch # <<>>
        /\ ~last'.threw)
       => Count(events', "filterMethod") > 0]_vars


\* at(i) left everything but a raw slot i alone, and put there a new record
\* of the collection with the attributes of the hash
AtInPlace(i) ==
    /\ length' = length
    /\ events' = <<>>
    /\ filtered' = filtered
    /\ uRecords' = uRecords
    /\ Len(records') = Len(records)
    /\ \A j \in 1..Len(records) :
          IF j = i + 1 /\ ~IsModel(heap, records[j])
          THEN /\ heap[records'[j]].kind = "free"
               /\ IsModel(heap', records'[j])
               /\ heap'[records'[j]].attrs = heap[records[j]].attrs
          ELSE records'[j] = records[j]

\* the records the call removed by request
Dropped == IF last'.op = "remove" THEN Range(last'.batch) ELSE {}

\* C20: at(i) materializes a raw slot in place, changes neither length nor
\* order and emits nothing; and a record that sits in a slot stays in the
\* collection (in the sequence or in the dataset behind a filter) through
\* every read, add, merge, filter pass, restore and remove of other records,
\* so that its slot is never materialized a second time.
MaterializedSlotKeepsRecord ==
    [][/\ last'.op = "at" => AtInPlace(last'.idx[1])
       /\ \A r \in Range(records) \ Dropped :
             IsModel(heap, r) => r \in Range(records') \cup Range(Full')]_vars


\* C21: for every batch handed to remove, in any order and with repeated
\* records, the list of indices the first loop builds is strictly ascending
\* (so duplicate-free), and the second loop, walking it from the end,
\* deletes exactly the slots it names.
RemovalIndicesAscending ==
    [][last'.op = "remove" =>
        /\ \A j \in 1..(Len(last'.rr) - 1) : last'.rr[j] < last'.rr[j + 1]
        /\ records' = Sub(records, (1..Len(records)) \ {i + 1 : i \in Range(last'.rr)}, 1)
      ]_vars


\* C22: between calls the undo buffer is present exactly while the
\* collection is filtered, and when present it is the whole sequence that
\* was visible when the collection was last unfiltered.
UndoBufferIsSnapshot ==
    /\ filtered <=> ~uRecords.isNull
    /\ filtered => uRecords.recs = base


\* the call leaves the filtered state: reset() with no arguments,
\* clearFilter(), or activeFilter set to the empty name
LeavesFilter ==
    /\ filtered
    /\ \/ last'.op = "reset" /\ last'.idx = <<>>
       \/ last'.op = "clearFilter"
       \/ last'.op = "activeFilter" /\ activeFilter' = ""

\* C23: leaving the filtered state, by reset() or by clearing the active
\* filter, puts the undo buffer back as the sequence, clears the buffer,
\* sets filtered to false, sets length to the number of slots and emits
\* exactly one reset event.
RestoreEmitsOneReset ==
    [][LeavesFilter =>
        /\ records' = uRecords.recs
        /\ uRecords' = Null
        /\ ~filtered'
        /\ length' = Len(uRecords.recs)
        /\ Count(events', "reset") = 1
        /\ Count(events', "length") = IF Len(uRecords.recs) = length THEN 0 ELSE 1
      ]_vars

\* clearFilter() brought hidden records back
ClearedFilterRestored ==
    /\ last.op = "clearFilter"
    /\ activeFilter = ""
    /\ ~filtered
    /\ uRecords.isNull
    /\ Count(events, "reset") = 1
    /\ Count(events, "length") = 1
    /\ length = Len(records)


\* the call ran a filter pass: the filter event reached _filterContent with
\* a filter active and something to filter
PassRan ==
    /\ last'.op \in {"activeFilter", "filter"}
    /\ activeFilter' \in Filters
    /\ length # 0 \/ (~uRecords.isNull /\ Len(uRecords.recs) # 0)

\* C24: after a pass whose method called reset(array) itself and returned
\* true, on an unfiltered or on an already filtered collection, the visible
\* sequence is that array, filtered is true and the undo buffer is the
\* unfiltered sequence as before; a method returning an array gets it as the
\* visible sequence; a method returning a falsy value changes nothing.
TrueOnlySignalsCompletion ==
    [][PassRan =>
        /\ last'.pred.kind = "self" =>
              /\ records' = Sub(records, last'.pred.m1, 1)
              /\ filtered'
              /\ uRecords'.recs = Full
        /\ last'.pred.kind = "array" => records' = Sub(records, last'.pred.m1, 1)
        /\ last'.pred.kind = "none" =>
              /\ records' = records
              /\ filtered' = filtered
              /\ uRecords' = uRecords
              /\ length' = length
      ]_vars


\* C25: a request for a filter pass that arrives while a pass is in
\* progress, from inside the filter method or from a listener of the reset
\* event of the pass, is ignored: the method is not called again, nothing
\* is raised, and sequence, length, undo buffer and flags stay as they are.
NestedPassIgnored ==
    [][last'.op \in {"nested", "nestedActivate"} =>
        /\ Count(events', "filterMethod") = 0
        /\ ~last'.threw
        /\ records' = records
        /\ length' = length
        /\ uRecords' = uRecords
        /\ filtered' = filtered
        /\ filtering' /\ silenced' = silenced
        /\ heap' = heap
      ]_vars

\* a listener of the reset event of a pass asked for a pass on a filtered
\* collection
AskedFromResetListener ==
    /\ last.op = "nested"
    /\ filtering
    /\ ~silenced
    /\ ~uRecords.isNull
    /\ Len(records) < Len(uRecords.recs)
    /\ Count(events, "filter") = 1


\* C26: while the filter method runs nothing is delivered: a reset the
\* method performs, with or without an array, and a filter event it
\* triggers, emit no event and no length notification; once the method has
\* returned the collection is no longer silenced, and the reset with a
\* returned array emits its reset event and its length notification.
SilentWhileMethodRuns ==
    [][/\ (InMethod /\ last'.op \in {"methodReset", "nested"}) =>
             (events' = <<>> /\ silenced')
       /\ last'.op = "methodReturn" =>
             /\ ~silenced'
             /\ last'.pred.kind = "array" =>
                   /\ Count(events', "reset") = 1
                   /\ Count(events', "length")
                          = IF Len(records') = Len(records) THEN 0 ELSE 1
      ]_vars

\* the filter method reset the collection to a shorter sequence and nothing
\* was delivered
MethodResetUnheard ==
    /\ last.op = "methodReset"
    /\ filtering
    /\ silenced
    /\ events = <<>>
    /\ ~uRecords.isNull
    /\ length < Len(uRecords.recs)


\* the items of the batch that matched no slot, in arrival order
RECURSIVE Unmerged(_, _, _)
Unmerged(batch, matched, j) ==
    IF j > Len(batch) THEN <<>>
    ELSE (IF matched[j] = -1 THEN <<batch[j]>> ELSE <<>>)
         \o Unmerged(batch, matched, j + 1)

\* the slots of the dataset whose primary key is v, and the items of the
\* batch with primary key v that were merged into a slot
SlotsWithKey(v) == {n \in 1..Len(Full) : heap[Full[n]].attrs[pk] = v}
MergedWithKey(batch, matched, v) ==
    {j \in 1..Len(batch) : matched[j] # -1 /\ heap[batch[j]].attrs[pk] = v}

MergeNeverMaterializes ==
    [][(last'.op = "merge" /\ ~last'.threw) =>
        /\ IsPrefix(Full, Full')
        /\ \A n \in 1..Len(Full) : heap'[Full[n]].kind = heap[Full[n]].kind
        /\ \A j \in 1..Len(last'.batch) :
              last'.matched[j] # -1 =>
                  heap'[records[last'.matched[j] + 1]].attrs
                      = Over(heap[records[last'.matched[j] + 1]].attrs,
                             heap[last'.batch[j]].attrs)
        /\ Cardinality({x \in Ids : heap[x].kind = "free" /\ heap'[x].kind # "free"})
              = IF instanceAllRecords
                THEN Cardinality({j \in 1..Len(last'.batch) :
                                    /\ last'.matched[j] = -1
                                    /\ ~IsModel(heap, last'.batch[j])})
                ELSE 0
      ]_vars

\* items were merged into a raw hash slot and into a record slot, second
\* slot first: the first slot is still raw
MergedIntoHashAndRecord ==
    /\ last.op = "merge"
    /\ last.matched = <<1, 0>>
    /\ Len(records) = 2
    /\ ~IsModel(heap, records[1])
    /\ IsModel(heap, records[2])
    /\ heap[records[1]].attrs = heap[last.batch[2]].attrs


\* C29: every record that remove, removeAll, destroyAll or destroy reports
\* as removed is no longer in the sequence and no longer has the
\* collection's change and destroy listeners, and the listeners are only on
\* records that are in the collection.
RemovedRecordsAreReleased ==
    [][(last'.op \in {"remove", "removeAll", "destroyAll", "destroy"}
        /\ ~last'.threw) =>
        /\ \A p \in last'.removed :
              /\ p[2] \notin Range(records')
              /\ ~heap'[p[2]].listening
        /\ \A x \in Ids :
              heap'[x].listening => x \in Range(records') \cup Range(Full')
      ]_vars


\* C30: between calls no slot of the unfiltered dataset holds a Record
\* whose destroyed flag is set: a Record of the collection that is destroyed
\* outside destroyAll is removed from it.
NoDestroyedMember ==
    \A n \in 1..Len(Full) :
        IsModel(heap, Full[n]) => ~heap[Full[n]].destroyed


\* C31: whenever no call of the collection is in progress, filtering,
\* silenced and _destroyAll are all false, however a filter pass or
\* destroyAll ended.
TransientFlagsBalanced == ~filtering /\ ~silenced /\ ~destroyingAll


====
